---- MODULE Spec2Model ----
(***************************************************************************)
(* The proving core of the farmer: SolutionsIterator of                    *)
(* crates/subspace-farmer-components/src/proving.rs.                       *)
(*                                                                         *)
(* One behaviour is one use of the iterator: the caller's inputs are       *)
(* chosen in Init, `new` constructs the iterator (or fails), and `next`    *)
(* is called any number of times.  The sector handle, the erasure coding,  *)
(* the KZG instance and the table generator are collaborators whose        *)
(* results are chosen nondeterministically; every call made to them is     *)
(* recorded in `reads` and `generated`.  A second specification runs two    *)
(* iterators over the same inputs and the same sector.                     *)
(*                                                                         *)
(* The module also models FarmerPieceGetter::get_piece of                  *)
(* crates/subspace-farmer/src/bin/subspace-farmer/commands/farm/           *)
(* farmer_piece_getter.rs, called concurrently, in a specification of its  *)
(* own.                                                                    *)
(***************************************************************************)
EXTENDS Integers, Sequences, FiniteSets, TLC

\* ------------------------------------------------------------------ bounds

\* Record::NUM_S_BUCKETS, scaled down.
NUM_S_BUCKETS == 2
\* sector_metadata.pieces_in_sector of the sector that is proved.
PiecesInSector == 2
\* Solution distances are drawn from 1..MaxDistance.
MaxDistance == 2
\* sector_metadata.history_size is drawn from 1..MaxHistorySize.
MaxHistorySize == 1
\* next() is called at most this many times on an exhausted iterator.
MaxExhaustedCalls == 2
\* The number of concurrent get_piece calls on one FarmerPieceGetter.
MaxCalls == 2

\* ------------------------------------------------------------------ values

\* Option<T>
None == <<>>
Some(x) == <<x>>

SBuckets == 0 .. (NUM_S_BUCKETS - 1)
PieceOffsets == 0 .. (PiecesInSector - 1)
Distances == 1 .. MaxDistance
HistorySizes == 1 .. MaxHistorySize

RECURSIVE SeqsUpTo(_, _)
\* All sequences over S of length at most n.
SeqsUpTo(S, n) ==
  IF n = 0 THEN {<<>>}
  ELSE LET shorter == SeqsUpTo(S, n - 1)
       IN  shorter \cup {Append(s, x) : s \in {t \in shorter : Len(t) = n - 1}, x \in S}

\* One row of the sector contents map: the (piece_offset, encoded_chunk_used)
\* pairs iter_s_bucket_records yields for one s-bucket.  The pieces that have
\* a chunk in the s-bucket appear in ascending piece offset.
SBucketRecords ==
  {r \in SeqsUpTo([piece_offset : PieceOffsets, encoded_chunk_used : BOOLEAN],
                  PiecesInSector) :
     \A i \in 1 .. Len(r) : \A j \in 1 .. Len(r) :
        i < j => r[i].piece_offset < r[j].piece_offset}

\* The candidate lists the auditor can hand over for an s-bucket with n
\* records: every chunk_offset is within the s-bucket, no chunk is named
\* twice, and the list is in ascending solution_distance.
ChunkCandidates(n) ==
  {c \in SeqsUpTo([chunk_offset : 0 .. (n - 1), solution_distance : Distances], n) :
     \A i \in 1 .. Len(c) : \A j \in 1 .. Len(c) :
        i < j => /\ c[i].chunk_offset # c[j].chunk_offset
                 /\ c[i].solution_distance <= c[j].solution_distance}

\* What one next() call can run into, in the order the steps are taken.
Outcomes == {"Ok", "ReadChunksFailed", "RecoverPolyFailed",
             "ReadMetadataFailed", "CreateWitnessFailed"}

\* ------------------------------------------------------------------- state

VARIABLES
  phase,                  \* "start" | "iterating" | "failed"
  public_key,             \* constructor input
  reward_address,         \* constructor input
  s_bucket,               \* constructor input
  max_shards,             \* erasure_coding.max_shards()
  chunk_candidates,       \* constructor input
  sector_metadata,        \* constructor input
  sector,                 \* the bytes at offset 0 of the sector: the contents
                          \* map they encode, and whether they decode at all
  construction,           \* None, or Some(result of new)
  winning_chunks,         \* SolutionsIterator::winning_chunks
  count,                  \* SolutionsIterator::count
  best_solution_distance, \* SolutionsIterator::best_solution_distance
  reads,                  \* every read issued against the sector handle
  generated,              \* every seed the table generator was called with
  yielded,                \* every item next() returned, in order
  returned,               \* what the last next() call returned
  steps,                  \* the steps the last next() call took in its try block
  exhausted_calls         \* next() calls that found the queue empty

\* A second SolutionsIterator over the same inputs, and what the sector and
\* the collaborators answer, which is the same for both iterators.
VARIABLES
  twin,                   \* the fields and the items of the second iterator
  faults                  \* whether the contents map can be read, and what
                          \* proving the piece at each offset runs into

\* FarmerPieceGetter and its concurrent get_piece calls.
VARIABLES
  piece_cache,            \* the PieceCache behind the mutex: key -> Option<Piece>
  lock,                   \* the call that holds the mutex, if any
  pc,                     \* where each get_piece call is
  piece_index,            \* the argument of each call
  maybe_should_store,     \* the local of that name of each call
  maybe_piece,            \* the local of that name of each call
  return_value,           \* what each call returned
  did                     \* what each call did to the cache, the base piece
                          \* getter and the node, in order

proving == <<phase, public_key, reward_address, s_bucket, max_shards, chunk_candidates,
             sector_metadata, sector, construction,
             winning_chunks, count, best_solution_distance, reads, generated,
             yielded, returned, steps, exhausted_calls>>

getter == <<piece_cache, lock, pc, piece_index, maybe_should_store, maybe_piece,
            return_value, did>>

vars == <<proving, twin, faults, getter>>

\* What an action of the first iterator leaves alone.
elsewhere == <<twin, faults, getter>>

inputs == <<public_key, reward_address, s_bucket, max_shards, chunk_candidates,
            sector_metadata, sector>>

iterator == <<winning_chunks, count, best_solution_distance>>

\* -------------------------------------------------------------- construction

\* The caller's inputs.  Only the row of the audited s-bucket is consulted by
\* the iterator, so the rows of the other s-buckets are left empty.  A sector
\* whose first bytes are malformed was still plotted from some contents map.
InitProving ==
  /\ phase = "start"
  /\ public_key = "public_key"
  /\ reward_address = "reward_address"
  /\ s_bucket \in SBuckets
  /\ max_shards \in {NUM_S_BUCKETS - 1, NUM_S_BUCKETS, NUM_S_BUCKETS + 1}
  /\ sector_metadata \in [sector_index : {"sector_index"},
                          pieces_in_sector : {PiecesInSector},
                          history_size : HistorySizes]
  /\ \E r \in SBucketRecords :
       /\ sector \in [contents_map : {[b \in SBuckets |-> IF b = s_bucket THEN r ELSE <<>>]},
                    well_formed : BOOLEAN]
       /\ chunk_candidates \in ChunkCandidates(Len(r))
  /\ construction = None
  /\ winning_chunks = <<>>
  /\ count = 0
  /\ best_solution_distance = None
  /\ reads = <<>>
  /\ generated = <<>>
  /\ yielded = <<>>
  /\ returned = None
  /\ steps = <<>>
  /\ exhausted_calls = 0

\* No second iterator.
NoTwin == [phase |-> "absent"]

\* No answers fixed in advance.
NoFaults == [contents_map_read_ok |-> TRUE, pieces |-> <<>>]

\* No FarmerPieceGetter.
GetterIdle ==
  /\ piece_cache = <<>>
  /\ lock = None
  /\ pc = <<>>
  /\ piece_index = <<>>
  /\ maybe_should_store = <<>>
  /\ maybe_piece = <<>>
  /\ return_value = <<>>
  /\ did = <<>>

Init ==
  /\ InitProving
  /\ twin = NoTwin
  /\ faults = NoFaults
  /\ GetterIdle

\* Faulty variant: the comparison is off by one.
InvalidErasureCodingInstanceOffByOne(shards) == shards < NUM_S_BUCKETS - 1

\* erasure_coding.max_shards() < Record::NUM_S_BUCKETS
InvalidErasureCodingInstance(shards) == shards < NUM_S_BUCKETS

\* Faulty variant: the result of read_at is dropped instead of propagated.
ReadSectorContentsMapIgnoringIo(read_ok, well_formed) ==
  IF ~well_formed THEN "FailedToDecodeSectorContentsMap" ELSE "Ok"

\* The read of the contents map at offset 0 followed by from_bytes: the first
\* failure is the error of the constructor.
ReadSectorContentsMap(read_ok, well_formed) ==
  IF ~read_ok THEN "Io"
  ELSE IF ~well_formed THEN "FailedToDecodeSectorContentsMap"
  ELSE "Ok"

\* sector_contents_map.iter_s_bucket_records(s_bucket).collect()
iter_s_bucket_records(contents_map, bucket) == contents_map[bucket]

RECURSIVE FilterMapByChunkOffset(_, _)
\* Faulty variant: the winning chunk takes the candidate's chunk offset as its
\* piece offset instead of mapping it through the s-bucket record.
FilterMapByChunkOffset(candidates, s_bucket_records) ==
  IF candidates = <<>> THEN <<>>
  ELSE LET chunk_candidate == Head(candidates)
           record == s_bucket_records[chunk_candidate.chunk_offset + 1]
           rest == FilterMapByChunkOffset(Tail(candidates), s_bucket_records)
       IN  IF record.encoded_chunk_used
           THEN <<[chunk_offset |-> chunk_candidate.chunk_offset,
                   piece_offset |-> chunk_candidate.chunk_offset,
                   solution_distance |-> chunk_candidate.solution_distance]>> \o rest
           ELSE rest

RECURSIVE FilterMapKeepingAll(_, _)
\* Faulty variant: map instead of filter_map, encoded_chunk_used is ignored.
FilterMapKeepingAll(candidates, s_bucket_records) ==
  IF candidates = <<>> THEN <<>>
  ELSE LET chunk_candidate == Head(candidates)
           record == s_bucket_records[chunk_candidate.chunk_offset + 1]
       IN  <<[chunk_offset |-> chunk_candidate.chunk_offset,
              piece_offset |-> record.piece_offset,
              solution_distance |-> chunk_candidate.solution_distance]>>
             \o FilterMapKeepingAll(Tail(candidates), s_bucket_records)

RECURSIVE FilterMap(_, _)
\* chunk_candidates.into_iter().filter_map(..).collect(): a candidate is kept
\* when its s-bucket record has encoded_chunk_used set, and is turned into a
\* WinningChunk with the piece offset of that record.
FilterMap(candidates, s_bucket_records) ==
  IF candidates = <<>> THEN <<>>
  ELSE LET chunk_candidate == Head(candidates)
           record == s_bucket_records[chunk_candidate.chunk_offset + 1]
           rest == FilterMap(Tail(candidates), s_bucket_records)
       IN  IF record.encoded_chunk_used
           THEN <<[chunk_offset |-> chunk_candidate.chunk_offset,
                   piece_offset |-> record.piece_offset,
                   solution_distance |-> chunk_candidate.solution_distance]>> \o rest
           ELSE rest

\* Faulty variant: the distance is taken from the back of the queue.
BackSolutionDistance(chunks) ==
  IF chunks = <<>> THEN None ELSE Some(chunks[Len(chunks)].solution_distance)

\* winning_chunks.front().map(|winning_chunk| winning_chunk.solution_distance)
FrontSolutionDistance(chunks) ==
  IF chunks = <<>> THEN None ELSE Some(Head(chunks).solution_distance)

\* sector.read_at(&mut sector_contents_map_bytes, 0)
ContentsMapRead(read_ok) ==
  [what |-> "sector_contents_map", offset |-> Some(0), piece_offset |-> None,
   call |-> 0, ok |-> read_ok]

\* sector_id.derive_evaluation_seed(piece_offset, history_size)
derive_evaluation_seed(piece_offset, history_size) ==
  [sector_id |-> "sector_id", piece_offset |-> piece_offset,
   history_size |-> history_size]

\* Faulty variant: the counter is taken from the candidate list, before the
\* filter.
new_counting_candidates ==
  /\ phase = "start"
  /\ IF InvalidErasureCodingInstance(max_shards)
     THEN /\ phase' = "failed"
          /\ construction' = Some("InvalidErasureCodingInstance")
          /\ UNCHANGED <<iterator, reads>>
     ELSE \E read_ok \in BOOLEAN :
            LET result == ReadSectorContentsMap(read_ok, sector.well_formed)
                s_bucket_records == iter_s_bucket_records(sector.contents_map, s_bucket)
                chunks == FilterMap(chunk_candidates, s_bucket_records)
            IN  /\ reads' = Append(reads, ContentsMapRead(read_ok))
                /\ construction' = Some(result)
                /\ IF result = "Ok"
                   THEN /\ phase' = "iterating"
                        /\ winning_chunks' = chunks
                        /\ best_solution_distance' = FrontSolutionDistance(chunks)
                        /\ count' = Len(chunk_candidates)
                   ELSE /\ phase' = "failed"
                        /\ UNCHANGED iterator
  /\ UNCHANGED <<inputs, generated, yielded, returned, steps, exhausted_calls>>
  /\ UNCHANGED elsewhere


\* Faulty variant: the tables of all winning chunks are generated eagerly.
new_eager ==
  /\ phase = "start"
  /\ IF InvalidErasureCodingInstance(max_shards)
     THEN /\ phase' = "failed"
          /\ construction' = Some("InvalidErasureCodingInstance")
          /\ UNCHANGED <<iterator, reads, generated>>
     ELSE \E read_ok \in BOOLEAN :
            LET result == ReadSectorContentsMap(read_ok, sector.well_formed)
                s_bucket_records == iter_s_bucket_records(sector.contents_map, s_bucket)
                chunks == FilterMap(chunk_candidates, s_bucket_records)
            IN  /\ reads' = Append(reads, ContentsMapRead(read_ok))
                /\ construction' = Some(result)
                /\ generated' =
                     IF result = "Ok"
                     THEN [i \in 1 .. Len(chunks) |->
                             derive_evaluation_seed(chunks[i].piece_offset,
                                                    sector_metadata.history_size)]
                     ELSE generated
                /\ IF result = "Ok"
                   THEN /\ phase' = "iterating"
                        /\ winning_chunks' = chunks
                        /\ best_solution_distance' = FrontSolutionDistance(chunks)
                        /\ count' = Len(chunks)
                   ELSE /\ phase' = "failed"
                        /\ UNCHANGED iterator
  /\ UNCHANGED <<inputs, yielded, returned, steps, exhausted_calls>>
  /\ UNCHANGED elsewhere


\* SolutionsIterator::new
new ==
  /\ phase = "start"
  /\ IF InvalidErasureCodingInstance(max_shards)
     THEN /\ phase' = "failed"
          /\ construction' = Some("InvalidErasureCodingInstance")
          /\ UNCHANGED <<iterator, reads>>
     ELSE \E read_ok \in BOOLEAN :
            LET result == ReadSectorContentsMap(read_ok, sector.well_formed)
                s_bucket_records == iter_s_bucket_records(sector.contents_map, s_bucket)
                chunks == FilterMap(chunk_candidates, s_bucket_records)
            IN  /\ reads' = Append(reads, ContentsMapRead(read_ok))
                /\ construction' = Some(result)
                /\ IF result = "Ok"
                   THEN /\ phase' = "iterating"
                        /\ winning_chunks' = chunks
                        /\ best_solution_distance' = FrontSolutionDistance(chunks)
                        /\ count' = Len(chunks)
                   ELSE /\ phase' = "failed"
                        /\ UNCHANGED iterator
  /\ UNCHANGED <<inputs, generated, yielded, returned, steps, exhausted_calls>>
  /\ UNCHANGED elsewhere

\* ------------------------------------------------------------------ iteration

\* Faulty variant: the counter is left alone.
DecrementSkipped(n) == n

\* self.count -= 1
Decrement(n) == n - 1

\* Faulty variant: the queue is popped at the wrong end.
pop_back(chunks) ==
  [popped |-> chunks[Len(chunks)], rest |-> SubSeq(chunks, 1, Len(chunks) - 1)]

\* self.winning_chunks.pop_front() on a non-empty queue
pop_front(chunks) == [popped |-> Head(chunks), rest |-> Tail(chunks)]

\* read_sector_record_chunks(piece_offset, ..), issued by the call-th next()
RecordChunksRead(piece_offset, call, read_ok) ==
  [what |-> "record_chunks", offset |-> None,
   piece_offset |-> Some(piece_offset), call |-> call, ok |-> read_ok]

\* read_record_metadata(piece_offset, ..), issued by the call-th next()
RecordMetadataRead(piece_offset, call, read_ok) ==
  [what |-> "record_metadata", offset |-> None,
   piece_offset |-> Some(piece_offset), call |-> call, ok |-> read_ok]

\* Faulty variant: the record metadata is read before the record chunks.
ReadsOfMetadataFirst(outcome, piece_offset, call) ==
  IF outcome \in {"ReadChunksFailed", "RecoverPolyFailed"}
  THEN <<RecordChunksRead(piece_offset, call, outcome # "ReadChunksFailed")>>
  ELSE <<RecordMetadataRead(piece_offset, call, outcome # "ReadMetadataFailed"),
         RecordChunksRead(piece_offset, call, TRUE)>>

\* Faulty variant: the record metadata is read whatever became of the chunks.
ReadsOfAlwaysMetadata(outcome, piece_offset, call) ==
  <<RecordChunksRead(piece_offset, call, outcome # "ReadChunksFailed"),
    RecordMetadataRead(piece_offset, call, outcome # "ReadMetadataFailed")>>

\* The reads one next() call issues.  The steps inside the try block run in
\* order and `?` leaves the block at the first failure: the record chunks are
\* read first, and the record metadata only after the record was recovered.
ReadsOf(outcome, piece_offset, call) ==
  IF outcome \in {"ReadChunksFailed", "RecoverPolyFailed"}
  THEN <<RecordChunksRead(piece_offset, call, outcome # "ReadChunksFailed")>>
  ELSE <<RecordChunksRead(piece_offset, call, TRUE),
         RecordMetadataRead(piece_offset, call, outcome # "ReadMetadataFailed")>>

\* Faulty variant: the table also depends on how many tables were generated
\* before it.
table_generator_counting(seed) == <<"pos_table", seed, Len(generated)>>

\* (self.table_generator)(&seed): the table is a function of the seed.
table_generator(seed) == <<"pos_table", seed>>

\* pos_table.find_proof(s_bucket)
find_proof(pos_table, bucket) == <<"proof_of_space", pos_table, bucket>>

\* The chunks read_sector_record_chunks returns for a piece, one per s-bucket.
read_sector_record_chunks(piece_offset) ==
  [bucket \in SBuckets |-> <<"chunk", piece_offset, bucket>>]

\* erasure_coding.recover_poly(sector_record_chunks)
recover_poly(sector_record_chunks) == <<"polynomial", sector_record_chunks>>

\* The commitment and witness read_record_metadata returns for a piece.
read_record_metadata(piece_offset) ==
  [commitment |-> <<"commitment", piece_offset>>,
   witness |-> <<"witness", piece_offset>>]

\* ChunkWitness::from(kzg.create_witness(polynomial, NUM_S_BUCKETS, s_bucket))
create_witness(polynomial, num_values, bucket) ==
  <<"chunk_witness", polynomial, num_values, bucket>>

\* Faulty variant: the record commitment and the record witness change places.
SolutionSwappingMetadata(chunk) ==
  LET piece_offset == chunk.piece_offset
      pos_table == table_generator(
        derive_evaluation_seed(piece_offset, sector_metadata.history_size))
      sector_record_chunks == read_sector_record_chunks(piece_offset)
      source_chunks_polynomial == recover_poly(sector_record_chunks)
      record_metadata == read_record_metadata(piece_offset)
  IN  [public_key |-> public_key,
       reward_address |-> reward_address,
       sector_index |-> sector_metadata.sector_index,
       history_size |-> sector_metadata.history_size,
       piece_offset |-> piece_offset,
       record_commitment |-> record_metadata.witness,
       record_witness |-> record_metadata.commitment,
       chunk |-> sector_record_chunks[s_bucket],
       chunk_witness |-> create_witness(source_chunks_polynomial, NUM_S_BUCKETS, s_bucket),
       proof_of_space |-> find_proof(pos_table, s_bucket)]

\* The Solution the try block builds for the popped chunk.
Solution(chunk) ==
  LET piece_offset == chunk.piece_offset
      pos_table == table_generator(
        derive_evaluation_seed(piece_offset, sector_metadata.history_size))
      sector_record_chunks == read_sector_record_chunks(piece_offset)
      source_chunks_polynomial == recover_poly(sector_record_chunks)
      record_metadata == read_record_metadata(piece_offset)
  IN  [public_key |-> public_key,
       reward_address |-> reward_address,
       sector_index |-> sector_metadata.sector_index,
       history_size |-> sector_metadata.history_size,
       piece_offset |-> piece_offset,
       record_commitment |-> record_metadata.commitment,
       record_witness |-> record_metadata.witness,
       chunk |-> sector_record_chunks[s_bucket],
       chunk_witness |-> create_witness(source_chunks_polynomial, NUM_S_BUCKETS, s_bucket),
       proof_of_space |-> find_proof(pos_table, s_bucket)]

\* The steps of the try block, in the order they are written.
TrySteps == <<"read_sector_record_chunks", "recover_poly", "read_record_metadata",
              "find_proof", "create_witness">>

\* The steps one next() call takes: `?` leaves the try block at the first
\* step that fails.
StepsOf(outcome) ==
  CASE outcome = "ReadChunksFailed" -> SubSeq(TrySteps, 1, 1)
    [] outcome = "RecoverPolyFailed" -> SubSeq(TrySteps, 1, 2)
    [] outcome = "ReadMetadataFailed" -> SubSeq(TrySteps, 1, 3)
    [] outcome = "CreateWitnessFailed" -> SubSeq(TrySteps, 1, 5)
    [] outcome = "Ok" -> TrySteps

\* Faulty variant: the erasure-decode error carries the chunk offset of the
\* winning chunk where its piece offset belongs.
MaybeSolutionWrongOffset(outcome, chunk) ==
  CASE outcome = "Ok" ->
         [kind |-> "Ok", error |-> "none", cause |-> "none", chunk |-> chunk,
          value |-> Solution(chunk)]
    [] outcome = "ReadChunksFailed" ->
         [kind |-> "Err", error |-> "RecordReadingError",
          cause |-> "read_sector_record_chunks", chunk |-> chunk,
          value |-> None]
    [] outcome = "RecoverPolyFailed" ->
         [kind |-> "Err", error |-> "RecordReadingError",
          cause |-> "FailedToErasureDecodeRecord", chunk |-> chunk,
          value |-> [piece_offset |-> chunk.chunk_offset]]
    [] outcome = "ReadMetadataFailed" ->
         [kind |-> "Err", error |-> "RecordReadingError",
          cause |-> "read_record_metadata", chunk |-> chunk,
          value |-> None]
    [] outcome = "CreateWitnessFailed" ->
         [kind |-> "Err", error |-> "FailedToCreateChunkWitness",
          cause |-> "create_witness", chunk |-> chunk,
          value |-> [piece_offset |-> chunk.piece_offset,
                     chunk_offset |-> chunk.chunk_offset]]

\* The item one next() call returns for the chunk it popped: `value` is the
\* Solution or the fields of the error, `chunk` the winning chunk it is for.
MaybeSolution(outcome, chunk) ==
  CASE outcome = "Ok" ->
         [kind |-> "Ok", error |-> "none", cause |-> "none", chunk |-> chunk,
          value |-> Solution(chunk)]
    [] outcome = "ReadChunksFailed" ->
         [kind |-> "Err", error |-> "RecordReadingError",
          cause |-> "read_sector_record_chunks", chunk |-> chunk,
          value |-> None]
    [] outcome = "RecoverPolyFailed" ->
         [kind |-> "Err", error |-> "RecordReadingError",
          cause |-> "FailedToErasureDecodeRecord", chunk |-> chunk,
          value |-> [piece_offset |-> chunk.piece_offset]]
    [] outcome = "ReadMetadataFailed" ->
         [kind |-> "Err", error |-> "RecordReadingError",
          cause |-> "read_record_metadata", chunk |-> chunk,
          value |-> None]
    [] outcome = "CreateWitnessFailed" ->
         [kind |-> "Err", error |-> "FailedToCreateChunkWitness",
          cause |-> "create_witness", chunk |-> chunk,
          value |-> [piece_offset |-> chunk.piece_offset,
                     chunk_offset |-> chunk.chunk_offset]]

\* Faulty variant: the counter is decremented before the queue is popped.
next_exhausted_decrementing ==
  /\ phase = "iterating"
  /\ winning_chunks = <<>>
  /\ exhausted_calls < MaxExhaustedCalls
  /\ count' = Decrement(count)
  /\ returned' = None
  /\ steps' = <<>>
  /\ exhausted_calls' = exhausted_calls + 1
  /\ UNCHANGED <<phase, inputs, construction, winning_chunks, best_solution_distance,
                 reads, generated, yielded>>
  /\ UNCHANGED elsewhere

\* next() on an empty queue: pop_front()? returns None before anything else.
next_exhausted ==
  /\ phase = "iterating"
  /\ winning_chunks = <<>>
  /\ exhausted_calls < MaxExhaustedCalls
  /\ returned' = None
  /\ steps' = <<>>
  /\ exhausted_calls' = exhausted_calls + 1
  /\ UNCHANGED <<phase, inputs, construction, iterator, reads, generated, yielded>>
  /\ UNCHANGED elsewhere

\* Faulty variant: an error empties the queue, so that nothing follows it.
next_item_poisoned ==
  /\ phase = "iterating"
  /\ winning_chunks # <<>>
  /\ \E outcome \in Outcomes :
       LET front == pop_front(winning_chunks)
           chunk == front.popped
           call == Len(yielded) + exhausted_calls + 1
           item == MaybeSolution(outcome, chunk)
       IN  /\ winning_chunks' = IF item.kind = "Err" THEN <<>> ELSE front.rest
           /\ count' = IF item.kind = "Err" THEN 0 ELSE Decrement(count)
           /\ generated' = Append(generated,
                derive_evaluation_seed(chunk.piece_offset, sector_metadata.history_size))
           /\ reads' = reads \o ReadsOf(outcome, chunk.piece_offset, call)
           /\ yielded' = Append(yielded, item)
           /\ returned' = Some(item)
           /\ steps' = StepsOf(outcome)
  /\ UNCHANGED <<phase, inputs, construction, best_solution_distance, exhausted_calls>>
  /\ UNCHANGED elsewhere

\* Faulty variant: the best distance follows the front of the queue.
next_item_refreshing_best ==
  /\ phase = "iterating"
  /\ winning_chunks # <<>>
  /\ \E outcome \in Outcomes :
       LET front == pop_front(winning_chunks)
           chunk == front.popped
           call == Len(yielded) + exhausted_calls + 1
           item == MaybeSolution(outcome, chunk)
       IN  /\ winning_chunks' = front.rest
           /\ count' = Decrement(count)
           /\ generated' = Append(generated,
                derive_evaluation_seed(chunk.piece_offset, sector_metadata.history_size))
           /\ reads' = reads \o ReadsOf(outcome, chunk.piece_offset, call)
           /\ yielded' = Append(yielded, item)
           /\ returned' = Some(item)
           /\ steps' = StepsOf(outcome)
           /\ best_solution_distance' = FrontSolutionDistance(front.rest)
  /\ UNCHANGED <<phase, inputs, construction, exhausted_calls>>
  /\ UNCHANGED elsewhere

\* next() on a non-empty queue.
next_item ==
  /\ phase = "iterating"
  /\ winning_chunks # <<>>
  /\ \E outcome \in Outcomes :
       LET front == pop_front(winning_chunks)
           chunk == front.popped
           call == Len(yielded) + exhausted_calls + 1
           item == MaybeSolution(outcome, chunk)
       IN  /\ winning_chunks' = front.rest
           /\ count' = Decrement(count)
           /\ generated' = Append(generated,
                derive_evaluation_seed(chunk.piece_offset, sector_metadata.history_size))
           /\ reads' = reads \o ReadsOf(outcome, chunk.piece_offset, call)
           /\ yielded' = Append(yielded, item)
           /\ returned' = Some(item)
           /\ steps' = StepsOf(outcome)
  /\ UNCHANGED <<phase, inputs, construction, best_solution_distance, exhausted_calls>>
  /\ UNCHANGED elsewhere

\* SolutionsIterator::next
next == next_exhausted \/ next_item

\* size_hint()
size_hint == <<count, Some(count)>>

\* ExactSizeIterator::len()
len == size_hint[1]

Next == new \/ next

Spec == Init /\ [][Next]_vars

\* ------------------------------------------------------- FarmerPieceGetter

\* The get_piece calls in flight.
Calls == 1 .. MaxCalls

\* The piece indexes that are asked for.
PieceIndexes == {0, 1}

\* Result<T, E>
Ok(value) == <<"Ok", value>>
Err(error) == <<"Err", <<error>>>>

\* PieceIndexHash::from_index(piece_index)
PieceIndexHash(index) == <<"piece_index_hash", index>>

\* piece_index_hash.to_multihash().into()
Key(index) == <<"multihash", PieceIndexHash(index)>>

\* The piece of a piece index.
Piece(index) == <<"piece", index>>

\* What the base piece getter can answer.
BaseResults(index) == {Err("base_piece_getter"), Ok(None), Ok(Some(Piece(index)))}

\* No iterator.
ProvingIdle ==
  /\ phase = "absent"
  /\ public_key = "public_key"
  /\ reward_address = "reward_address"
  /\ s_bucket = 0
  /\ max_shards = NUM_S_BUCKETS
  /\ chunk_candidates = <<>>
  /\ sector_metadata = <<>>
  /\ sector = <<>>
  /\ construction = None
  /\ winning_chunks = <<>>
  /\ count = 0
  /\ best_solution_distance = None
  /\ reads = <<>>
  /\ generated = <<>>
  /\ yielded = <<>>
  /\ returned = None
  /\ steps = <<>>
  /\ exhausted_calls = 0

\* A getter over a cache that holds any of the pieces, and the calls made on
\* it, each for some piece index.
InitGetter ==
  /\ ProvingIdle
  /\ twin = NoTwin
  /\ faults = NoFaults
  /\ piece_cache \in {cache \in [{Key(i) : i \in PieceIndexes} ->
                                  {None} \cup {Some(Piece(i)) : i \in PieceIndexes}] :
                       \A i \in PieceIndexes : cache[Key(i)] \in {None, Some(Piece(i))}}
  /\ lock = None
  /\ pc = [call \in Calls |-> "start"]
  /\ piece_index \in [Calls -> PieceIndexes]
  /\ maybe_should_store = [call \in Calls |-> None]
  /\ maybe_piece = [call \in Calls |-> None]
  /\ return_value = [call \in Calls |-> None]
  /\ did = [call \in Calls |-> <<>>]

\* The call returns.
Return(call, value) ==
  /\ pc' = [pc EXCEPT ![call] = "done"]
  /\ return_value' = [return_value EXCEPT ![call] = Some(value)]

\* The call goes on to the given place.
Goto(call, place) ==
  /\ pc' = [pc EXCEPT ![call] = place]
  /\ UNCHANGED return_value

\* The call records what it did.
Did(call, events) == did' = [did EXCEPT ![call] = @ \o events]

\* Faulty variant: a cached piece is not returned, the piece is fetched anyway.
get_piece_lookup_refetching(call) ==
  /\ pc[call] = "start"
  /\ lock = None
  /\ LET key == Key(piece_index[call])
     IN  \E should_cache \in BOOLEAN :
           /\ maybe_should_store' = [maybe_should_store EXCEPT ![call] = Some(should_cache)]
           /\ Goto(call, "fetching")
           /\ Did(call, <<<<"get_piece", IF piece_cache[key] # None THEN "hit" ELSE "miss">>,
                          <<"should_cache", should_cache>>>>)
  /\ UNCHANGED <<piece_cache, lock, piece_index, maybe_piece>>
  /\ UNCHANGED <<proving, twin, faults>>

\* get_piece, the first block under the cache lock: a cached piece is
\* returned, otherwise should_cache is asked and the lock is released.
get_piece_lookup(call) ==
  /\ pc[call] = "start"
  /\ lock = None
  /\ LET key == Key(piece_index[call])
     IN  IF piece_cache[key] # None
         THEN /\ Return(call, Ok(Some(piece_cache[key][1])))
              /\ Did(call, <<<<"get_piece", "hit">>>>)
              /\ UNCHANGED maybe_should_store
         ELSE \E should_cache \in BOOLEAN :
                /\ maybe_should_store' = [maybe_should_store EXCEPT ![call] = Some(should_cache)]
                /\ Goto(call, "fetching")
                /\ Did(call, <<<<"get_piece", "miss">>, <<"should_cache", should_cache>>>>)
  /\ UNCHANGED <<piece_cache, lock, piece_index, maybe_piece>>
  /\ UNCHANGED <<proving, twin, faults>>

\* Faulty variant: a fetched piece is stored whatever should_cache said before
\* the fetch.
get_piece_fetch_always_storing(call) ==
  /\ pc[call] = "fetching"
  /\ \E base_result \in BaseResults(piece_index[call]) :
       /\ Did(call, <<<<"base_get_piece", base_result>>>>)
       /\ IF base_result[1] = "Err"
          THEN /\ Return(call, base_result)
               /\ UNCHANGED maybe_piece
          ELSE /\ maybe_piece' = [maybe_piece EXCEPT ![call] = base_result[2]]
               /\ IF base_result[2] # None
                  THEN Goto(call, "storing")
                  ELSE Return(call, Ok(base_result[2]))
  /\ UNCHANGED <<piece_cache, lock, piece_index, maybe_should_store>>
  /\ UNCHANGED <<proving, twin, faults>>

\* get_piece, the base piece getter's answer: an error is returned by `?`, and
\* a piece goes on to the cache only if should_cache said so before.
get_piece_fetch(call) ==
  /\ pc[call] = "fetching"
  /\ \E base_result \in BaseResults(piece_index[call]) :
       /\ Did(call, <<<<"base_get_piece", base_result>>>>)
       /\ IF base_result[1] = "Err"
          THEN /\ Return(call, base_result)
               /\ UNCHANGED maybe_piece
          ELSE /\ maybe_piece' = [maybe_piece EXCEPT ![call] = base_result[2]]
               /\ IF base_result[2] # None /\ maybe_should_store[call] = Some(TRUE)
                  THEN Goto(call, "storing")
                  ELSE Return(call, Ok(base_result[2]))
  /\ UNCHANGED <<piece_cache, lock, piece_index, maybe_should_store>>
  /\ UNCHANGED <<proving, twin, faults>>

\* Faulty variant: the piece is added without looking whether the cache got
\* it in the meantime.
get_piece_store_unchecked(call) ==
  /\ pc[call] = "storing"
  /\ lock = None
  /\ LET key == Key(piece_index[call])
     IN  \E should_cache \in BOOLEAN :
           IF should_cache
           THEN /\ piece_cache' = [piece_cache EXCEPT ![key] = maybe_piece[call]]
                /\ lock' = Some(call)
                /\ Goto(call, "announcing")
                /\ Did(call, <<<<"should_cache", should_cache>>, <<"add_piece", key>>>>)
           ELSE /\ Return(call, Ok(maybe_piece[call]))
                /\ Did(call, <<<<"should_cache", should_cache>>>>)
                /\ UNCHANGED <<piece_cache, lock>>
  /\ UNCHANGED <<piece_index, maybe_should_store, maybe_piece>>
  /\ UNCHANGED <<proving, twin, faults>>

\* get_piece, the second block under the cache lock: the piece is added if
\* should_cache still says so and the cache does not hold it; the lock is
\* kept for the announcement.
get_piece_store(call) ==
  /\ pc[call] = "storing"
  /\ lock = None
  /\ LET key == Key(piece_index[call])
     IN  \E should_cache \in BOOLEAN :
           IF should_cache /\ piece_cache[key] = None
           THEN /\ piece_cache' = [piece_cache EXCEPT ![key] = maybe_piece[call]]
                /\ lock' = Some(call)
                /\ Goto(call, "announcing")
                /\ Did(call, <<<<"should_cache", should_cache>>, <<"get_piece", "miss">>,
                               <<"add_piece", key>>>>)
           ELSE /\ Return(call, Ok(maybe_piece[call]))
                /\ Did(call, IF should_cache
                             THEN <<<<"should_cache", should_cache>>, <<"get_piece", "hit">>>>
                             ELSE <<<<"should_cache", should_cache>>>>)
                /\ UNCHANGED <<piece_cache, lock>>
  /\ UNCHANGED <<piece_index, maybe_should_store, maybe_piece>>
  /\ UNCHANGED <<proving, twin, faults>>

\* get_piece, the announcement of the piece that was added: a failure is
\* logged, the lock is released and the fetched piece is returned.
get_piece_announce(call) ==
  /\ pc[call] = "announcing"
  /\ lock = Some(call)
  /\ \E announced \in BOOLEAN :
       Did(call, IF announced
                 THEN <<<<"announce", PieceIndexHash(piece_index[call])>>>>
                 ELSE <<<<"announce", PieceIndexHash(piece_index[call])>>,
                        <<"debug", "announcing failed">>>>)
  /\ lock' = None
  /\ Return(call, Ok(maybe_piece[call]))
  /\ UNCHANGED <<piece_cache, piece_index, maybe_should_store, maybe_piece>>
  /\ UNCHANGED <<proving, twin, faults>>

\* FarmerPieceGetter::get_piece, one step of one call
get_piece(call) ==
  \/ get_piece_lookup(call)
  \/ get_piece_fetch(call)
  \/ get_piece_store(call)
  \/ get_piece_announce(call)

NextGetter == \E call \in Calls : get_piece(call)

SpecGetter == InitGetter /\ [][NextGetter]_vars

\* ------------------------------------------------ two iterators, one sector

\* A second iterator that new() was not called for yet.
TwinStart ==
  [phase |-> "start", construction |-> None, winning_chunks |-> <<>>, count |-> 0,
   best_solution_distance |-> None, yielded |-> <<>>, returned |-> None]

\* The piece offsets of the chunks new() retains when it succeeds.
WinningPieceOffsets(read_ok) ==
  LET chunks == FilterMap(chunk_candidates,
                          iter_s_bucket_records(sector.contents_map, s_bucket))
  IN  IF \/ InvalidErasureCodingInstance(max_shards)
         \/ ReadSectorContentsMap(read_ok, sector.well_formed) # "Ok"
      THEN {}
      ELSE {chunks[i].piece_offset : i \in 1 .. Len(chunks)}

\* The same inputs for two iterators: the bytes of the sector and the
\* erasure coding and commitment schemes decide once whether the contents map
\* can be read and what proving the piece at each offset runs into.  Only the
\* pieces that an iterator gets to prove have an answer to give.  The audited
\* s-bucket and the history size are passed through to the solutions and are
\* given one value each.
InitTwin ==
  /\ InitProving
  /\ s_bucket = 0
  /\ sector_metadata.history_size = MaxHistorySize
  /\ twin = TwinStart
  /\ \E read_ok \in BOOLEAN :
       \E outcomes \in [WinningPieceOffsets(read_ok) -> Outcomes] :
         faults = [contents_map_read_ok |-> read_ok,
                   pieces |-> [p \in PieceOffsets |->
                                 IF p \in DOMAIN outcomes THEN outcomes[p] ELSE "Ok"]]
  /\ GetterIdle

\* SolutionsIterator::new of the first iterator, over this sector.
first_new ==
  /\ new
  /\ reads' # reads => reads'[Len(reads')].ok = faults.contents_map_read_ok

\* SolutionsIterator::next of the first iterator, over this sector; one call
\* on the exhausted iterator is followed.
first_next ==
  /\ next
  /\ exhausted_calls' <= 1
  /\ yielded' # yielded =>
       returned' = Some(MaybeSolution(faults.pieces[Head(winning_chunks).piece_offset],
                                      Head(winning_chunks)))

\* SolutionsIterator::new of the second iterator
twin_new ==
  /\ twin.phase = "start"
  /\ twin' =
       IF InvalidErasureCodingInstance(max_shards)
       THEN [twin EXCEPT !.phase = "failed",
                         !.construction = Some("InvalidErasureCodingInstance")]
       ELSE LET outcome == ReadSectorContentsMap(faults.contents_map_read_ok,
                                                  sector.well_formed)
                s_bucket_records == iter_s_bucket_records(sector.contents_map, s_bucket)
                chunks == FilterMap(chunk_candidates, s_bucket_records)
            IN  IF outcome = "Ok"
                THEN [twin EXCEPT !.phase = "iterating",
                                  !.construction = Some(outcome),
                                  !.winning_chunks = chunks,
                                  !.best_solution_distance = FrontSolutionDistance(chunks),
                                  !.count = Len(chunks)]
                ELSE [twin EXCEPT !.phase = "failed", !.construction = Some(outcome)]
  /\ UNCHANGED <<proving, faults, getter>>

\* SolutionsIterator::next of the second iterator
twin_next ==
  /\ twin.phase = "iterating"
  /\ twin' =
       IF twin.winning_chunks = <<>>
       THEN [twin EXCEPT !.returned = None]
       ELSE LET front == pop_front(twin.winning_chunks)
                chunk == front.popped
                item == MaybeSolution(faults.pieces[chunk.piece_offset], chunk)
            IN  [twin EXCEPT !.winning_chunks = front.rest,
                             !.count = Decrement(@),
                             !.yielded = Append(@, item),
                             !.returned = Some(item)]
  /\ UNCHANGED <<proving, faults, getter>>

NextTwin == first_new \/ first_next \/ twin_new \/ twin_next

SpecTwin == InitTwin /\ [][NextTwin]_vars

\* ----------------------------------------------------------------- properties

\* The s-bucket row of the contents map the sector was plotted with.
Row == sector.contents_map[s_bucket]

\* The candidate's source chunk is stored encoded in the audited s-bucket.
EncodedAt(candidate) == Row[candidate.chunk_offset + 1].encoded_chunk_used

\* The candidates of the input list that survive the filter, in input order.
Survivors == SelectSeq(chunk_candidates, EncodedAt)

\* The winning chunk a surviving candidate stands for.
WinningChunkOf(candidate) ==
  [chunk_offset |-> candidate.chunk_offset,
   piece_offset |-> Row[candidate.chunk_offset + 1].piece_offset,
   solution_distance |-> candidate.solution_distance]

\* The winning chunks a freshly constructed iterator holds.
Winners == [i \in 1 .. Len(Survivors) |-> WinningChunkOf(Survivors[i])]

\* C1 (length law): an iterator constructed with N candidates to yield has,
\* after k calls of next() that each returned an Ok or an Err item,
\* len() = N - k and size_hint() = (N - k, Some(N - k)).
C1_LengthLaw ==
  phase = "iterating" =>
    LET N == Len(Survivors)
        k == Len(yielded)
    IN  /\ k <= N
        /\ len = N - k
        /\ size_hint = <<N - k, Some(N - k)>>

\* An Err item was returned, and the length went from 2 to 1.
C1_Witness ==
  /\ phase = "iterating"
  /\ Len(Survivors) = 2
  /\ Len(yielded) = 1
  /\ yielded[1].kind = "Err"
  /\ len = 1

\* C2 (filtering law): the queue new() builds is the subsequence of the
\* candidates whose s-bucket record is encoded, in input order, each carrying
\* its chunk_offset and solution_distance and the record's piece_offset; the
\* dropped candidates cause no construction error and no Err item.
C2_FilteringLaw ==
  /\ (phase = "iterating" /\ yielded = <<>>) =>
        /\ construction = Some("Ok")
        /\ winning_chunks = Winners
  /\ \A i \in 1 .. Len(yielded) :
        \E j \in 1 .. Len(chunk_candidates) :
           /\ EncodedAt(chunk_candidates[j])
           /\ yielded[i].chunk = WinningChunkOf(chunk_candidates[j])

\* Two candidates of which the first is dropped and the second is kept.
C2_Witness ==
  /\ phase = "iterating"
  /\ yielded = <<>>
  /\ Len(chunk_candidates) = 2
  /\ ~EncodedAt(chunk_candidates[1])
  /\ Len(winning_chunks) = 1
  /\ winning_chunks[1].chunk_offset = chunk_candidates[2].chunk_offset
  /\ winning_chunks[1].solution_distance = chunk_candidates[2].solution_distance

\* C3 (never poisoned): a next() call on a non-empty queue returns an item,
\* Ok or Err, the iterator stays usable, and when candidates are left the
\* queue is non-empty and the next one is at its front.
C3_NeverPoisoned ==
  [][(phase = "iterating" /\ winning_chunks # <<>>) =>
       /\ phase' = "iterating"
       /\ returned' # None
       /\ returned'[1].kind \in {"Ok", "Err"}
       /\ yielded' = Append(yielded, returned'[1])
       /\ Len(yielded') < Len(Survivors) =>
            /\ winning_chunks' # <<>>
            /\ Head(winning_chunks') = Winners[Len(yielded') + 1]]_vars

\* An Err item was followed by the item of the next candidate.
C3_Witness ==
  /\ phase = "iterating"
  /\ Len(yielded) = 2
  /\ yielded[1].kind = "Err"
  /\ yielded[2].kind = "Ok"
  /\ yielded[2].chunk = Winners[2]

\* C4 (ordering stability): the i-th item returned is the one of the i-th
\* surviving candidate of the input list, whatever the kinds of the items
\* before it, and the candidates not yet yielded wait in input order.
C4_OrderingStability ==
  phase = "iterating" =>
    /\ Len(yielded) <= Len(Winners)
    /\ \A i \in 1 .. Len(yielded) : yielded[i].chunk = Winners[i]
    /\ winning_chunks = SubSeq(Winners, Len(yielded) + 1, Len(Winners))

\* Two Err items, for candidates given in descending chunk offset.
C4_Witness ==
  /\ phase = "iterating"
  /\ Len(yielded) = 2
  /\ yielded[1].kind = "Err"
  /\ yielded[2].kind = "Err"
  /\ chunk_candidates[1].chunk_offset > chunk_candidates[2].chunk_offset
  /\ yielded[1].chunk.chunk_offset > yielded[2].chunk.chunk_offset

\* C5 (best-distance law): best_solution_distance is the solution distance at
\* the front of the queue new() built, None when that queue was empty, and
\* keeps that value over any number of next() calls, exhaustion included.
C5_BestDistanceLaw ==
  phase = "iterating" =>
    best_solution_distance =
      IF Survivors = <<>> THEN None ELSE Some(Survivors[1].solution_distance)

\* After a next() call the front of the queue has another distance than the
\* best one.
C5_Witness ==
  /\ phase = "iterating"
  /\ Len(yielded) = 1
  /\ winning_chunks # <<>>
  /\ best_solution_distance # None
  /\ Head(winning_chunks).solution_distance # best_solution_distance[1]

\* C6 (exhaustion): a next() call on an empty queue returns None, leaves
\* len() at 0, and neither calls the table generator nor reads the sector.
C6_Exhaustion ==
  [][(phase = "iterating" /\ winning_chunks = <<>>) =>
       /\ returned' = None
       /\ len' = 0
       /\ winning_chunks' = <<>>
       /\ yielded' = yielded
       /\ generated' = generated
       /\ reads' = reads]_vars

\* The iterator yielded an item and was then driven past its end twice.
C6_Witness ==
  /\ phase = "iterating"
  /\ yielded # <<>>
  /\ exhausted_calls = 2
  /\ returned = None
  /\ len = 0

\* C7 (invalid erasure coding instance): with max_shards() < NUM_S_BUCKETS
\* new() returns Err(InvalidErasureCodingInstance), there is no iterator and
\* the sector is not read.
C7_InvalidErasureCoding ==
  max_shards < NUM_S_BUCKETS =>
    /\ phase # "iterating"
    /\ reads = <<>>
    /\ yielded = <<>>
    /\ construction # None => construction = Some("InvalidErasureCodingInstance")

\* new() has failed for max_shards() = NUM_S_BUCKETS - 1 on a sound sector
\* with candidates to prove.
C7_Witness ==
  /\ max_shards = NUM_S_BUCKETS - 1
  /\ construction = Some("InvalidErasureCodingInstance")
  /\ phase = "failed"
  /\ sector.well_formed
  /\ Survivors # <<>>

\* C8 (construction-time errors): a failed read of the contents map makes
\* new() return Io, malformed bytes make it return
\* FailedToDecodeSectorContentsMap; either way there is no iterator, no
\* candidate was filtered and the table generator was not called.
C8_ConstructionErrors ==
  (reads # <<>> /\ (~reads[1].ok \/ ~sector.well_formed)) =>
    /\ construction =
         Some(IF ~reads[1].ok THEN "Io" ELSE "FailedToDecodeSectorContentsMap")
    /\ phase = "failed"
    /\ winning_chunks = <<>>
    /\ count = 0
    /\ best_solution_distance = None
    /\ generated = <<>>
    /\ yielded = <<>>
    /\ Len(reads) = 1

\* The read succeeded, the bytes did not decode, and candidates that would
\* have survived were not filtered.
C8_Witness ==
  /\ construction = Some("FailedToDecodeSectorContentsMap")
  /\ reads # <<>>
  /\ reads[1].ok
  /\ Survivors # <<>>
  /\ winning_chunks = <<>>

\* No candidate of the input list has an encoded s-bucket record.
NoSurvivor ==
  \A i \in 1 .. Len(chunk_candidates) : ~EncodedAt(chunk_candidates[i])

\* C9 (empty boundary): with no candidate, or none whose record is encoded,
\* new() succeeds (given a valid erasure coding instance and a readable,
\* well-formed contents map) and the iterator is exhausted at once: len() = 0,
\* best_solution_distance() = None, and next() returns None.
C9_EmptyBoundary ==
  (/\ NoSurvivor
   /\ construction # None
   /\ max_shards >= NUM_S_BUCKETS
   /\ reads[1].ok
   /\ sector.well_formed) =>
    /\ construction = Some("Ok")
    /\ phase = "iterating"
    /\ len = 0
    /\ best_solution_distance = None
    /\ yielded = <<>>
    /\ generated = <<>>
    /\ returned = None

\* Every candidate of a non-empty list was dropped and the first next()
\* returned None.
C9_Witness ==
  /\ phase = "iterating"
  /\ chunk_candidates # <<>>
  /\ NoSurvivor
  /\ exhausted_calls = 1
  /\ returned = None
  /\ best_solution_distance = None

\* C10 (read ordering): the only read of new() is the one of the contents map
\* at offset 0; every other read is issued by the next() call that pops the
\* candidate it is for, the record chunks before the record metadata, and the
\* reads of one candidate are over before those of the next one start.
C10_ReadOrdering ==
  \A i \in 1 .. Len(reads) :
    /\ i = 1 =>
         /\ reads[i].what = "sector_contents_map"
         /\ reads[i].offset = Some(0)
         /\ reads[i].call = 0
    /\ i > 1 =>
         /\ reads[i].call \in 1 .. Len(yielded)
         /\ reads[i].what \in {"record_chunks", "record_metadata"}
         /\ reads[i].piece_offset = Some(Winners[reads[i].call].piece_offset)
         /\ reads[i].what = "record_metadata" =>
              /\ reads[i - 1].what = "record_chunks"
              /\ reads[i - 1].call = reads[i].call
         /\ reads[i].what = "record_chunks" =>
              /\ reads[i - 1].call = reads[i].call - 1
              /\ \A j \in 1 .. Len(reads) : reads[j].call = reads[i].call - 1 => j < i

\* Both candidates had their record chunks and their record metadata read.
C10_Witness ==
  /\ Len(yielded) = 2
  /\ Len(reads) = 5
  /\ reads[2].piece_offset # reads[4].piece_offset
  /\ reads[5].what = "record_metadata"

\* C11 (erasure-decode failure): when recover_poly fails for the popped
\* candidate, next() returns an Err item that is a FailedToErasureDecodeRecord
\* with that candidate's piece_offset, len() drops by exactly one, and the
\* candidate after it is at the front of the queue for the following call.
C11_ErasureDecodeFailure ==
  [][(/\ phase = "iterating"
      /\ winning_chunks # <<>>
      /\ steps' = <<"read_sector_record_chunks", "recover_poly">>) =>
       /\ returned' # None
       /\ returned'[1].kind = "Err"
       /\ returned'[1].cause = "FailedToErasureDecodeRecord"
       /\ returned'[1].value.piece_offset = Winners[Len(yielded) + 1].piece_offset
       /\ yielded' = Append(yielded, returned'[1])
       /\ len' = len - 1
       /\ Len(yielded') < Len(Winners) =>
            /\ winning_chunks' # <<>>
            /\ Head(winning_chunks') = Winners[Len(yielded') + 1]]_vars

\* The record of the first candidate could not be recovered and the second
\* candidate was proved after it.
C11_Witness ==
  /\ phase = "iterating"
  /\ Len(yielded) = 2
  /\ yielded[1].cause = "FailedToErasureDecodeRecord"
  /\ yielded[1].value.piece_offset = Winners[1].piece_offset
  /\ yielded[2].kind = "Ok"
  /\ yielded[2].chunk = Winners[2]
  /\ len = 0

\* C13 (solution provenance): every Ok(Solution) carries the constructor's
\* public_key and reward_address, the sector_index and history_size of
\* sector_metadata, the piece_offset of the winning chunk that was popped, the
\* commitment and witness of the record metadata of that piece, the chunk at
\* index s_bucket of the record chunks of that piece, and the proof that the
\* table generated for that piece gives for s_bucket.
C13_SolutionProvenance ==
  \A i \in 1 .. Len(yielded) :
    yielded[i].kind = "Ok" =>
      LET solution == yielded[i].value
          piece_offset == Winners[i].piece_offset
      IN  /\ solution.public_key = public_key
          /\ solution.reward_address = reward_address
          /\ solution.sector_index = sector_metadata.sector_index
          /\ solution.history_size = sector_metadata.history_size
          /\ solution.piece_offset = piece_offset
          /\ solution.record_commitment = <<"commitment", piece_offset>>
          /\ solution.record_witness = <<"witness", piece_offset>>
          /\ solution.chunk = <<"chunk", piece_offset, s_bucket>>
          /\ generated[i].piece_offset = piece_offset
          /\ solution.proof_of_space =
               <<"proof_of_space", <<"pos_table", generated[i]>>, s_bucket>>

\* A solution for the second s-bucket whose piece offset is not the chunk
\* offset of its candidate.
C13_Witness ==
  /\ yielded # <<>>
  /\ yielded[1].kind = "Ok"
  /\ s_bucket = 1
  /\ yielded[1].value.piece_offset # yielded[1].chunk.chunk_offset

\* C14 (counter invariant): in every reachable state, after construction,
\* after items of either kind and after calls on the exhausted iterator, the
\* counter size_hint() and len() report is winning_chunks.len().
C14_CountIsQueueLength ==
  /\ len = Len(winning_chunks)
  /\ size_hint = <<Len(winning_chunks), Some(Len(winning_chunks))>>

\* One of two candidates was dropped, the other gave an Err item, and next()
\* was called once more.
C14_Witness ==
  /\ phase = "iterating"
  /\ Len(chunk_candidates) = 2
  /\ Len(yielded) = 1
  /\ yielded[1].kind = "Err"
  /\ exhausted_calls = 1
  /\ len = 0

\* The candidate list is in ascending solution_distance.
Ascending(candidates) ==
  \A i \in 1 .. Len(candidates) : \A j \in 1 .. Len(candidates) :
    i < j => candidates[i].solution_distance <= candidates[j].solution_distance

\* C15 (best distance is the minimum): for candidates delivered in ascending
\* solution_distance, best_solution_distance() is at most the distance of
\* every winning chunk the iterator yields or still holds, and it is None
\* exactly when new() retained no winning chunk.
C15_BestIsMinimum ==
  (phase = "iterating" /\ Ascending(chunk_candidates)) =>
    /\ best_solution_distance = None <=> Winners = <<>>
    /\ \A i \in 1 .. Len(yielded) :
         best_solution_distance[1] <= yielded[i].chunk.solution_distance
    /\ \A i \in 1 .. Len(winning_chunks) :
         best_solution_distance[1] <= winning_chunks[i].solution_distance

\* Two winning chunks of different distance were both yielded.
C15_Witness ==
  /\ phase = "iterating"
  /\ Len(yielded) = 2
  /\ yielded[1].chunk.solution_distance < yielded[2].chunk.solution_distance
  /\ best_solution_distance = Some(yielded[1].chunk.solution_distance)

\* The smaller of two numbers.
Min(a, b) == IF a <= b THEN a ELSE b

\* C16 (lazy table generation): new() does not call the table generator; each
\* next() on a non-empty queue calls it once, Ok or Err, with the seed of
\* (sector_id, popped piece_offset, history_size); after k calls of next() on
\* N winning chunks it was called min(k, N) times, in candidate order.
C16_LazyTables ==
  LET k == Len(yielded) + exhausted_calls
      N == Len(Winners)
  IN  /\ phase # "iterating" => generated = <<>>
      /\ phase = "iterating" => Len(generated) = Min(k, N)
      /\ Len(generated) = Len(yielded)
      /\ \A i \in 1 .. Len(generated) :
           generated[i] = [sector_id |-> "sector_id",
                           piece_offset |-> Winners[i].piece_offset,
                           history_size |-> sector_metadata.history_size]

\* Two tables were generated, the first for an Err item, and a third call
\* found the queue empty.
C16_Witness ==
  /\ Len(generated) = 2
  /\ yielded[1].kind = "Err"
  /\ yielded[2].kind = "Ok"
  /\ exhausted_calls = 1
  /\ generated[1].piece_offset # generated[2].piece_offset

\* The step at which a next() call that returned this item stopped.
LastStepOf(item) ==
  CASE item.cause = "read_sector_record_chunks" -> 1
    [] item.cause = "FailedToErasureDecodeRecord" -> 2
    [] item.cause = "read_record_metadata" -> 3
    [] item.cause = "create_witness" -> 5
    [] item.cause = "none" -> 5

\* The reads the call-th next() issued, in order.
ReadsDuring(call) ==
  LET during(read) == read.call = call
      issued == SelectSeq(reads, during)
  IN  [i \in 1 .. Len(issued) |-> issued[i].what]

\* C17 (step order): a next() call takes the steps record-chunk read, erasure
\* recovery, record-metadata read, proof lookup and chunk-witness creation in
\* that order, each at most once, and stops at the first that fails, which is
\* the one its Err item reports; no record metadata is read after a failed
\* chunk read or a failed recovery.
C17_StepOrder ==
  returned # None =>
    LET item == returned[1]
        last == LastStepOf(item)
        issued == ReadsDuring(Len(yielded))
    IN  /\ steps = SubSeq(<<"read_sector_record_chunks", "recover_poly",
                            "read_record_metadata", "find_proof",
                            "create_witness">>, 1, last)
        /\ item.kind = "Ok" <=> item.cause = "none"
        /\ issued = IF last < 3 THEN <<"record_chunks">>
                    ELSE <<"record_chunks", "record_metadata">>

\* The recovery of the second candidate's record failed after the first
\* candidate was proved: its call read the record chunks and nothing else.
C17_Witness ==
  /\ Len(yielded) = 2
  /\ yielded[1].kind = "Ok"
  /\ returned # None
  /\ returned[1].cause = "FailedToErasureDecodeRecord"
  /\ Len(steps) = 2
  /\ Len(reads) = 4


\* What the calls for a piece index did under the given name, as the places
\* <<call, position>> of their records.
Events(index, name) ==
  UNION {{<<call, k>> : k \in {k \in 1 .. Len(did[call]) : did[call][k][1] = name}} :
         call \in {call \in Calls : piece_index[call] = index}}

\* What the given call did under the given name.
EventsOf(call, name) == {k \in 1 .. Len(did[call]) : did[call][k][1] = name}

\* The call missed the cache and fetched from the base piece getter.
Fetched(call) == EventsOf(call, "base_get_piece") # {}

\* What the base piece getter answered to the call.
BaseResultOf(call) == did[call][CHOOSE k \in EventsOf(call, "base_get_piece") : TRUE][2]

\* C18: however concurrent get_piece calls for one piece index interleave,
\* all of them possibly missing the cache and fetching, add_piece is called at
\* most once for the key and the piece is announced at most once (the cache
\* keeps what was added): the insert re-checks should_cache and
\* get_piece(&key).is_none() under the cache lock, which is the only place a
\* piece is added and is held while the piece is announced.
C18_AtMostOneAdd ==
  /\ \A index \in PieceIndexes :
       /\ Cardinality(Events(index, "add_piece")) <= 1
       /\ Cardinality(Events(index, "announce")) <= 1
       /\ Events(index, "add_piece") # {} => piece_cache[Key(index)] = Some(Piece(index))
  /\ \A call \in Calls :
       /\ pc[call] = "announcing" => lock = Some(call)
       /\ Cardinality(EventsOf(call, "add_piece")) = Cardinality(EventsOf(call, "announce"))
                                                      + (IF pc[call] = "announcing" THEN 1 ELSE 0)

\* Two calls for one piece index both missed the cache, both fetched the piece
\* and both reached the insert; one of them added and announced it.
C18_Witness ==
  \E a, b \in Calls :
    /\ a # b
    /\ piece_index[a] = piece_index[b]
    /\ pc[a] = "done" /\ pc[b] = "done"
    /\ Fetched(a) /\ Fetched(b)
    /\ maybe_should_store[a] = Some(TRUE) /\ maybe_should_store[b] = Some(TRUE)
    /\ maybe_piece[a] # None /\ maybe_piece[b] # None
    /\ EventsOf(a, "add_piece") # {} /\ EventsOf(a, "announce") # {}
    /\ EventsOf(b, "add_piece") = {}
    /\ <<"get_piece", "hit">> \in {did[b][k] : k \in 1 .. Len(did[b])}

\* C19, what holds of every call: a call that missed the cache returns
\* exactly what the base piece getter answered, whether or not the piece was
\* cached or the announcement failed; a call that returns the base getter's
\* error added and announced nothing; a piece is added only when the base
\* getter answered Some and should_cache was true before the fetch and at the
\* insert.
C19_OfCalls ==
  \A call \in Calls :
    /\ (pc[call] = "done" /\ Fetched(call)) =>
         /\ return_value[call] = Some(BaseResultOf(call))
         /\ BaseResultOf(call)[1] = "Err" =>
              /\ EventsOf(call, "add_piece") = {}
              /\ EventsOf(call, "announce") = {}
    /\ EventsOf(call, "announce") # {} => EventsOf(call, "add_piece") # {}
    /\ \A k \in EventsOf(call, "add_piece") :
         /\ Fetched(call)
         /\ BaseResultOf(call) = Ok(Some(Piece(piece_index[call])))
         /\ piece_cache[Key(piece_index[call])] = BaseResultOf(call)[2]
         /\ maybe_should_store[call] = Some(TRUE)
         /\ did[call][2] = <<"should_cache", TRUE>>
         /\ did[call][k - 2] = <<"should_cache", TRUE>>
         /\ k - 2 > 2

\* C19: on a cache miss get_piece returns exactly the base piece getter's
\* result (Ok(Some(piece)) or Ok(None), cached or not, announced or not, and
\* an error with the cache left unchanged and nothing announced), and a piece
\* is added to the cache only when the base getter returned Some and
\* should_cache was true both before the fetch and at the insert; the cache
\* changes only in the step that adds the piece.
C19_MissReturnsBaseResult ==
  [][/\ C19_OfCalls'
     /\ \A call \in Calls :
          /\ (pc[call] = "fetching" /\ pc'[call] # "fetching") =>
               /\ piece_cache' = piece_cache
               /\ lock' = lock
          /\ (pc[call] # "done" /\ pc'[call] = "done" /\ return_value'[call][1][1] = "Err") =>
               /\ pc[call] = "fetching"
               /\ piece_cache' = piece_cache
          /\ (piece_cache' # piece_cache /\ pc'[call] # pc[call]) =>
               /\ pc[call] = "storing"
               /\ EventsOf(call, "add_piece")' # {}]_vars

\* A call missed the cache, fetched the piece and added it, the announcement
\* failed, and the call returned the piece; another call got the base piece
\* getter's error.
C19_Witness ==
  \E a, b \in Calls :
    /\ pc[a] = "done"
    /\ EventsOf(a, "add_piece") # {}
    /\ EventsOf(a, "debug") # {}
    /\ return_value[a] = Some(Ok(Some(Piece(piece_index[a]))))
    /\ pc[b] = "done"
    /\ Fetched(b)
    /\ return_value[b] = Some(Err("base_piece_getter"))

\* C20: on a cache hit get_piece returns the cached piece without calling the
\* base piece getter, without calling add_piece and without announcing, and
\* the call leaves the cache contents as they were.
C20_HitIsPure ==
  [][\A call \in Calls :
       LET key == Key(piece_index[call])
       IN  (pc[call] = "start" /\ pc'[call] # "start" /\ piece_cache[key] # None) =>
             /\ pc'[call] = "done"
             /\ return_value'[call] = Some(Ok(piece_cache[key]))
             /\ piece_cache' = piece_cache
             /\ lock' = lock
             /\ did'[call] = <<<<"get_piece", "hit">>>>
             /\ EventsOf(call, "base_get_piece")' = {}
             /\ EventsOf(call, "add_piece")' = {}
             /\ EventsOf(call, "announce")' = {}]_vars

\* A call hit the cache on a piece that another call had added, and returned
\* that piece.
C20_Witness ==
  \E a, b \in Calls :
    /\ pc[a] = "done"
    /\ did[a] = <<<<"get_piece", "hit">>>>
    /\ return_value[a] = Some(Ok(Some(Piece(piece_index[a]))))
    /\ piece_index[b] = piece_index[a]
    /\ EventsOf(b, "add_piece") # {}


====
